---- MODULE Spec2Model ----
\* A model of mitre-mapping.py: the command classifier and technique resolver
\* (map_command_to_mitre), the history analyzer (analyze_bash_history) and the
\* sequencing of main.
\*
\* Text is modelled at the character level: a Python str is a sequence of
\* one-character strings, so that strip, split, the regular expressions and
\* the substring test of the resolver are computed, not assumed.
\* A Python dict is a function whose DOMAIN is the set of keys present.
EXTENDS Integers, Sequences, FiniteSets, TLC

VARIABLES
    pc,          \* position of the run (or of the driver of a single function)
    shape,       \* how the input text was put together (history variable)
    command,     \* the command handed to map_command_to_mitre
    techniques,  \* the technique ids the rule table produced for `command`
    technique,   \* the id being resolved
    info,        \* the record the resolver returned
    log_text,    \* the content of the history file
    mitre_data,  \* mitre_data['objects'], the loaded reference dataset
    results,     \* the list analyze_bash_history returned (records alias the dataset)
    returned,    \* per call of analyze_bash_history: the value it returned, as read then
    env,         \* files and network as the run finds them
    console,     \* what main printed as the report
    pdf,         \* what generate_pdf_report wrote
    failure,     \* the step that raised, "none" if none did
    classified   \* number of commands handed to map_command_to_mitre so far

vars == <<pc, shape, command, techniques, technique, info, log_text, mitre_data,
          results, returned, env, console, pdf, failure, classified>>

-----------------------------------------------------------------------------
\* Bounds of the model.

\* arguments after the verb of a generated command
MaxArgs == 1
\* entries of a generated reference dataset
MaxObjects == 2
\* segments of a generated history log
MaxSegs == 3
\* calls of analyze_bash_history on the same dataset object
MaxRuns == 2

-----------------------------------------------------------------------------
\* Characters and strings.

\* str.strip() and \s : the whitespace characters of the model's alphabet
Whitespace == {" ", "\t", "\n"}

\* \w : the word characters
WordChars ==
    {"a","b","c","d","e","f","g","h","i","j","k","l","m","n","o","p","q","r",
     "s","t","u","v","w","x","y","z",
     "A","B","C","D","E","F","G","H","I","J","K","L","M","N","O","P","Q","R",
     "S","T","U","V","W","X","Y","Z",
     "0","1","2","3","4","5","6","7","8","9","_"}

Drop(s, n) == SubSeq(s, n + 1, Len(s))

StartsWith(s, p) == Len(s) >= Len(p) /\ SubSeq(s, 1, Len(p)) = p

\* Python: needle in hay (substring test)
Contains(hay, needle) ==
    \E i \in 0..(Len(hay) - Len(needle)) : SubSeq(hay, i + 1, i + Len(needle)) = needle

RECURSIVE lstrip(_)
lstrip(s) == IF s # <<>> /\ Head(s) \in Whitespace THEN lstrip(Tail(s)) ELSE s

RECURSIVE rstrip(_)
rstrip(s) ==
    IF s # <<>> /\ s[Len(s)] \in Whitespace THEN rstrip(SubSeq(s, 1, Len(s) - 1)) ELSE s

\* Python: s.strip()
strip(s) == rstrip(lstrip(s))

RECURSIVE split(_, _)
\* Python: s.split(sep) for a one-character sep; always at least one piece
split(s, sep) ==
    IF \E i \in 1..Len(s) : s[i] = sep
    THEN LET i == CHOOSE i \in 1..Len(s) : s[i] = sep /\ \A j \in 1..(i - 1) : s[j] # sep
         IN  <<SubSeq(s, 1, i - 1)>> \o split(Drop(s, i), sep)
    ELSE <<s>>

RECURSIVE readlines(_)
\* Python: file.readlines(): each line keeps its "\n"; the last may lack it
readlines(s) ==
    IF s = <<>> THEN <<>>
    ELSE IF \E i \in 1..Len(s) : s[i] = "\n"
    THEN LET i == CHOOSE i \in 1..Len(s) : s[i] = "\n" /\ \A j \in 1..(i - 1) : s[j] # "\n"
         IN  <<SubSeq(s, 1, i)>> \o readlines(Drop(s, i))
    ELSE <<s>>

RECURSIVE Join(_, _)
\* the concatenation of the pieces, sep between consecutive ones
Join(pieces, sep) ==
    IF pieces = <<>> THEN <<>>
    ELSE IF Len(pieces) = 1 THEN pieces[1]
    ELSE pieces[1] \o sep \o Join(Tail(pieces), sep)

-----------------------------------------------------------------------------
\* The words of the rule table and of the generated inputs.

w_cd == <<"c", "d">>
w_ls == <<"l", "s">>
w_cat == <<"c", "a", "t">>
w_echo == <<"e", "c", "h", "o">>
w_whoami == <<"w", "h", "o", "a", "m", "i">>
w_clear == <<"c", "l", "e", "a", "r">>
w_uname == <<"u", "n", "a", "m", "e">>
w_sudo == <<"s", "u", "d", "o">>
w_history == <<"h", "i", "s", "t", "o", "r", "y">>
w_poweroff == <<"p", "o", "w", "e", "r", "o", "f", "f">>
w_reboot == <<"r", "e", "b", "o", "o", "t">>
w_wget == <<"w", "g", "e", "t">>
w_curl == <<"c", "u", "r", "l">>
w_netstat == <<"n", "e", "t", "s", "t", "a", "t">>
w_ss == <<"s", "s">>
w_chmod == <<"c", "h", "m", "o", "d">>
w_chown == <<"c", "h", "o", "w", "n">>
w_find == <<"f", "i", "n", "d">>
w_grep == <<"g", "r", "e", "p">>
w_systemctl == <<"s", "y", "s", "t", "e", "m", "c", "t", "l">>
w_ps == <<"p", "s">>
w_top == <<"t", "o", "p">>
w_traceroute == <<"t", "r", "a", "c", "e", "r", "o", "u", "t", "e">>
w_ping == <<"p", "i", "n", "g">>
w_passwd == <<"p", "a", "s", "s", "w", "d">>
w_sudoers == <<"s", "u", "d", "o", "e", "r", "s">>
w_zsh_history == <<".", "z", "s", "h", "_", "h", "i", "s", "t", "o", "r", "y">>

Unknown == <<"U", "n", "k", "n", "o", "w", "n">>
T1083 == <<"T", "1", "0", "8", "3">>
T1005 == <<"T", "1", "0", "0", "5">>
T1087 == <<"T", "1", "0", "8", "7">>
T1070 == <<"T", "1", "0", "7", "0">>
T1078 == <<"T", "1", "0", "7", "8">>
T1059 == <<"T", "1", "0", "5", "9">>
T1086 == <<"T", "1", "0", "8", "6">>
T1105 == <<"T", "1", "1", "0", "5">>
T1049 == <<"T", "1", "0", "4", "9">>
T1060 == <<"T", "1", "0", "6", "0">>
T1069 == <<"T", "1", "0", "6", "9">>

-----------------------------------------------------------------------------
\* The regular expressions of map_command_to_mitre (re.search, no flags).

\* `.*$` from the start of s: `.` is any character but "\n", `$` is the end
\* of the string or the place before a final "\n"
DotStarEnd(s) == \A i \in 1..Len(s) : s[i] = "\n" => i = Len(s)

\* `\s+.*$` from the start of s
SpacesRest(s) ==
    \E k \in 1..Len(s) :
        /\ \A i \in 1..k : s[i] \in Whitespace
        /\ DotStarEnd(Drop(s, k))

\* `\s*$` from the start of s
SpacesEnd(s) == \A i \in 1..Len(s) : s[i] \in Whitespace

\* `^\s*(v1|v2|..)` : what may follow a verb of verbs at the start of c.
\* No verb starts with whitespace, so `\s*` takes all the leading whitespace.
AfterVerb(verbs, c) ==
    LET r == lstrip(c)
    IN  {Drop(r, Len(v)) : v \in {w \in verbs : StartsWith(r, w)}}

\* ^\s*(verbs)(\s+.*)?$
re_verb_opt(verbs, c) ==
    \E t \in AfterVerb(verbs, c) : t = <<>> \/ t = <<"\n">> \/ SpacesRest(t)

\* ^\s*(verbs)\s+.*$
re_verb_args(verbs, c) == \E t \in AfterVerb(verbs, c) : SpacesRest(t)

\* ^\s*(verbs)\s*$
re_verb_bare(verbs, c) == \E t \in AfterVerb(verbs, c) : SpacesEnd(t)

\* ^\s*echo\s+.*>\s*\.zsh_history\s*$
re_echo_history(c) ==
    \E t \in AfterVerb({w_echo}, c) :
        \E k \in 1..Len(t), g \in 1..Len(t) :
            /\ \A i \in 1..k : t[i] \in Whitespace
            /\ g > k
            /\ t[g] = ">"
            /\ \A i \in (k + 1)..(g - 1) : t[i] # "\n"
            /\ StartsWith(lstrip(Drop(t, g)), w_zsh_history)
            /\ SpacesEnd(Drop(lstrip(Drop(t, g)), Len(w_zsh_history)))

\* the word found anywhere in c, word boundaries not looked at
re_word_anywhere(word, c) == Contains(c, word)

\* \bword\b found somewhere in c
re_word(word, c) ==
    \E i \in 1..(Len(c) - Len(word) + 1) :
        /\ SubSeq(c, i, i + Len(word) - 1) = word
        /\ i = 1 \/ c[i - 1] \notin WordChars
        /\ i + Len(word) > Len(c) \/ c[i + Len(word)] \notin WordChars

-----------------------------------------------------------------------------
\* Python dicts.

\* d.get(k, default)
get(d, k, default) == IF k \in DOMAIN d THEN d[k] ELSE default

\* d[k] = v
set(d, k, v) == [x \in DOMAIN d \cup {k} |-> IF x = k THEN v ELSE d[x]]

-----------------------------------------------------------------------------
\* map_command_to_mitre: the rule table.

\* the if/elif chain on the stripped command c; <<>> is the `return []` of
\* the clear rule
rule_table(c) ==
    IF re_verb_opt({w_cd}, c) THEN <<T1083>>
    ELSE IF re_verb_opt({w_ls}, c) THEN <<T1083>>
    ELSE IF re_verb_args({w_cat}, c) THEN
        IF re_word(w_passwd, c) THEN <<T1005, T1087>>
        ELSE IF re_word(w_sudoers, c) THEN <<T1005, T1087>>
        ELSE <<T1005>>
    ELSE IF re_echo_history(c) THEN <<T1070>>
    ELSE IF re_verb_bare({w_whoami}, c) THEN <<T1078>>
    ELSE IF re_verb_bare({w_clear}, c) THEN <<>>
    ELSE IF re_verb_opt({w_uname}, c) THEN <<T1005>>
    ELSE IF re_verb_opt({w_sudo}, c) THEN <<T1078>>
    ELSE IF re_verb_opt({w_history}, c) THEN <<T1059>>
    ELSE IF re_verb_bare({w_poweroff, w_reboot}, c) THEN <<T1086>>
    ELSE IF re_verb_args({w_wget, w_curl}, c) THEN <<T1105>>
    ELSE IF re_verb_opt({w_netstat, w_ss}, c) THEN <<T1049>>
    ELSE IF re_verb_args({w_chmod, w_chown}, c) THEN <<T1070>>
    ELSE IF re_verb_args({w_find, w_grep}, c) THEN <<T1083>>
    ELSE IF re_verb_args({w_systemctl}, c) THEN <<T1060>>
    ELSE IF re_verb_opt({w_ps, w_top}, c) THEN <<T1083>>
    ELSE IF re_verb_args({w_traceroute, w_ping}, c) THEN <<T1069>>
    ELSE <<Unknown>>

\* command = command.strip(), then the rule table
classify(cmd) == rule_table(strip(cmd))

-----------------------------------------------------------------------------
\* map_command_to_mitre: the lookup of one technique id.

\* a default that leaves the solutions to the fallback
Placeholder_bare ==
    [name |-> "Unknown Technique", description |-> "No description available."]

\* the default of next(): a fresh dict at every lookup
Placeholder ==
    [name |-> "Unknown Technique",
     description |-> "No description available.",
     solutions |-> <<"No solutions available.">>]

\* item.get("external_references", [{}])[0].get("external_id", "")
external_id(item) == get(get(item, "external_references", << <<>> >>)[1], "external_id", <<>>)

\* the substring test with its operands exchanged
matches_swapped(tech, item) == Contains(tech, external_id(item))

\* the condition of the generator expression
matches(tech, item) == Contains(external_id(item), tech)

\* next(...): the index in objects of the first matching item, 0 for the default
first_match(tech, objects) ==
    IF \E i \in 1..Len(objects) : matches(tech, objects[i])
    THEN CHOOSE i \in 1..Len(objects) :
            /\ matches(tech, objects[i])
            /\ \A j \in 1..(i - 1) : ~matches(tech, objects[j])
    ELSE 0

\* the fallback taken only when the key is absent
with_solutions_absent_only(d) ==
    IF "solutions" \notin DOMAIN d
    THEN set(d, "solutions", <<get(d, "description", "No description available.")>>)
    ELSE d

\* the description appended to the solutions at every lookup
with_solutions_append(d) ==
    set(d, "solutions",
        get(d, "solutions", <<>>) \o <<get(d, "description", "No description available.")>>)

\* if not info.get('solutions'): info['solutions'] = [info.get('description', ...)]
with_solutions(d) ==
    IF get(d, "solutions", <<>>) = <<>>
    THEN set(d, "solutions", <<get(d, "description", "No description available.")>>)
    ELSE d

\* One turn of the loop over techniques. The record found is the dataset's own
\* dict (ref = its index in objects; val is then not read) or the fresh default
\* (ref = 0, val = the dict), and the assignment to info['solutions'] writes
\* through to whichever it is.
resolve(tech, objects) ==
    LET i == first_match(tech, objects)
    IN  IF i = 0
        THEN [info |-> [ref |-> 0, val |-> with_solutions(Placeholder)], objects |-> objects]
        ELSE [info |-> [ref |-> i, val |-> [name |-> "alias"]],
              objects |-> [objects EXCEPT ![i] = with_solutions(objects[i])]]

RECURSIVE resolve_all(_, _)
\* for technique in techniques: ... technique_info.append(info)
resolve_all(techs, objects) ==
    IF techs = <<>> THEN [ret |-> <<>>, objects |-> objects]
    ELSE LET r == resolve(Head(techs), objects)
             rest == resolve_all(Tail(techs), r.objects)
         IN  [ret |-> <<r.info>> \o rest.ret, objects |-> rest.objects]

\* map_command_to_mitre(command, mitre_data): the list returned and the
\* dataset as the call leaves it
map_command_to_mitre(cmd, objects) == resolve_all(classify(cmd), objects)

\* the dict a returned record denotes, read in the dataset objects
deref(rec, objects) == IF rec.ref = 0 THEN rec.val ELSE objects[rec.ref]

-----------------------------------------------------------------------------
\* analyze_bash_history.

RECURSIVE commands_of(_)
\* the commands of the loops over lines and line.strip().split(';'), in order
commands_of(lines) ==
    IF lines = <<>> THEN <<>>
    ELSE split(strip(Head(lines)), ";") \o commands_of(Tail(lines))

RECURSIVE analyze_commands_keep_all(_, _)
\* the loop without its `if techniques:` test
analyze_commands_keep_all(cmds, objects) ==
    IF cmds = <<>> THEN [results |-> <<>>, objects |-> objects]
    ELSE LET m == resolve_all(rule_table(strip(Head(cmds))), objects)
             rest == analyze_commands_keep_all(Tail(cmds), m.objects)
         IN  [results |-> <<[command |-> Head(cmds), techniques |-> m.ret]>> \o rest.results,
              objects |-> rest.objects]

RECURSIVE analyze_commands(_, _)
analyze_commands(cmds, objects) ==
    IF cmds = <<>> THEN [results |-> <<>>, objects |-> objects]
    ELSE LET m == map_command_to_mitre(Head(cmds), objects)
             rest == analyze_commands(Tail(cmds), m.objects)
         IN  [results |->
                (IF m.ret # <<>>
                 THEN <<[command |-> Head(cmds), techniques |-> m.ret]>>
                 ELSE <<>>) \o rest.results,
              objects |-> rest.objects]

\* analyze_bash_history on the text of the file: the results list and the
\* dataset as the call leaves it
analyze_bash_history(text, objects) == analyze_commands(commands_of(readlines(text)), objects)

\* a results list as a reader of it sees it: every record read through
view(res, objects) ==
    [i \in 1..Len(res) |->
        [command |-> res[i].command,
         techniques |-> [j \in 1..Len(res[i].techniques) |->
                            deref(res[i].techniques[j], objects)]]]

-----------------------------------------------------------------------------
\* Generated commands (inputs of the classifier).

a_etc_passwd == <<"/", "e", "t", "c", "/", "p", "a", "s", "s", "w", "d">>
a_etc_sudoers == <<"/", "e", "t", "c", "/", "s", "u", "d", "o", "e", "r", "s">>
a_passwd_dot_bak == <<"p", "a", "s", "s", "w", "d", ".", "b", "a", "k">>
a_passwd_bak == <<"p", "a", "s", "s", "w", "d", "_", "b", "a", "k">>
a_xpasswd == <<"x", "p", "a", "s", "s", "w", "d">>
a_sudoers2 == <<"s", "u", "d", "o", "e", "r", "s", "2">>
a_foo_txt == <<"f", "o", "o", ".", "t", "x", "t">>
a_tmp == <<"/", "t", "m", "p">>
a_to_history == <<">", " ", ".", "z", "s", "h", "_", "h", "i", "s", "t", "o", "r", "y">>
w_cats == <<"c", "a", "t", "s">>
w_lsof == <<"l", "s", "o", "f">>
w_foo == <<"f", "o", "o">>

\* arguments that hold passwd or sudoers as a whole word
SensitiveArgs == {a_etc_passwd, a_etc_sudoers, a_passwd_dot_bak}

\* arguments that do not
PlainArgs == {a_passwd_bak, a_xpasswd, a_sudoers2, a_foo_txt, a_tmp, a_to_history}

Args == SensitiveArgs \cup PlainArgs

RuleVerbs ==
    {w_cd, w_ls, w_cat, w_echo, w_whoami, w_clear, w_uname, w_sudo, w_history,
     w_poweroff, w_reboot, w_wget, w_curl, w_netstat, w_ss, w_chmod, w_chown,
     w_find, w_grep, w_systemctl, w_ps, w_top, w_traceroute, w_ping}

Verbs == RuleVerbs \cup {w_cats, w_lsof, w_foo, <<>>}

ArgLists == UNION {[1..n -> Args] : n \in 0..MaxArgs}

\* a command: leading blanks, a first word, a gap, arguments one blank apart,
\* trailing blanks
CommandShapes ==
    {sh \in [lead : {<<>>, <<" ">>}, verb : Verbs, gap : {<<>>, <<" ">>, <<"\t", " ">>},
             args : ArgLists, trail : {<<>>, <<" ">>}] :
        sh.args = <<>> => sh.gap = <<>>}

command_text(sh) == sh.lead \o sh.verb \o sh.gap \o Join(sh.args, <<" ">>) \o sh.trail

-----------------------------------------------------------------------------
\* SpecClassify: the rule table applied to one generated command.

Idle == [name |-> "none"]

InitClassify ==
    /\ pc = "ready"
    /\ shape \in CommandShapes
    /\ command = command_text(shape)
    /\ techniques = <<>>
    /\ technique = <<>>
    /\ info = Idle
    /\ log_text = <<>>
    /\ mitre_data = <<>>
    /\ results = <<>>
    /\ returned = <<>>
    /\ env = Idle
    /\ console = <<>>
    /\ pdf = <<>>
    /\ failure = "none"
    /\ classified = 0

\* lines 53-97 of map_command_to_mitre on `command`
ClassifyCommand ==
    /\ pc = "ready"
    /\ techniques' = classify(command)
    /\ classified' = classified + 1
    /\ pc' = "classified"
    /\ UNCHANGED <<shape, command, technique, info, log_text, mitre_data, results,
                   returned, env, console, pdf, failure>>

NextClassify == ClassifyCommand

SpecClassify == InitClassify /\ [][NextClassify]_vars

-----------------------------------------------------------------------------
\* Generated reference datasets.

T1005_001 == <<"T", "1", "0", "0", "5", ".", "0", "0", "1">>
T1083_001 == <<"T", "1", "0", "8", "3", ".", "0", "0", "1">>

\* an external reference with and without an external_id
ref_id(id) == [source_name |-> "mitre-attack", external_id |-> id]
ref_plain == [source_name |-> "other"]

\* A dataset entry from its optional parts; each of refs, desc, sol is <<>>
\* (key absent) or <<v>> (key present with value v). external_references is
\* never an empty list: STIX forbids empty lists.
entry(refs, name, desc, sol) ==
    LET e0 == [name |-> name]
        e1 == IF refs = <<>> THEN e0 ELSE set(e0, "external_references", refs[1])
        e2 == IF desc = <<>> THEN e1 ELSE set(e1, "description", desc[1])
    IN  IF sol = <<>> THEN e2 ELSE set(e2, "solutions", sol[1])

SeqsUpTo(S, n) == UNION {[1..k -> S] : k \in 0..n}

\* entries for the resolver: the id itself, an id that contains it, other
\* ids, a first reference without id, no references at all
ResolveRefs ==
    {<<>>,
     << <<ref_plain, ref_id(T1005)>> >>,
     << <<ref_id(T1005)>> >>,
     << <<ref_id(T1005_001)>> >>,
     << <<ref_id(T1087), ref_id(T1005)>> >>}

ResolveEntries ==
    {entry(r, "n", d, s) :
        r \in ResolveRefs, d \in {<<>>, <<"d1">>, <<"d2">>},
        s \in {<<>>, << <<>> >>, << <<"s1">> >>}}

ResolveTechniques == {T1005, T1087, Unknown}

-----------------------------------------------------------------------------
\* SpecResolve: one lookup of a technique id in a generated dataset.

InitResolve ==
    /\ pc = "ready"
    /\ technique \in ResolveTechniques
    /\ mitre_data \in SeqsUpTo(ResolveEntries, MaxObjects)
    /\ shape = [objects |-> mitre_data]
    /\ command = <<>>
    /\ techniques = <<>>
    /\ info = Idle
    /\ log_text = <<>>
    /\ results = <<>>
    /\ returned = <<>>
    /\ env = Idle
    /\ console = <<>>
    /\ pdf = <<>>
    /\ failure = "none"
    /\ classified = 0

\* lines 101-117 of map_command_to_mitre for `technique`: info is the record
\* as a reader of the returned list sees it
ResolveTechnique ==
    /\ pc = "ready"
    /\ \E r \in {resolve(technique, mitre_data)} :
           /\ mitre_data' = r.objects
           /\ info' = [ref |-> r.info.ref, val |-> deref(r.info, r.objects)]
    /\ pc' = "resolved"
    /\ UNCHANGED <<shape, command, techniques, technique, log_text, results,
                   returned, env, console, pdf, failure, classified>>

NextResolve == ResolveTechnique

SpecResolve == InitResolve /\ [][NextResolve]_vars

-----------------------------------------------------------------------------
\* Generated history logs.

s_cd_tmp == <<"c", "d", " ", "/", "t", "m", "p">>
s_clear == <<" ", "c", "l", "e", "a", "r">>
s_whoami == <<" ", "w", "h", "o", "a", "m", "i">>
s_cat_passwd == <<"c", "a", "t", " ", "/", "e", "t", "c", "/", "p", "a", "s", "s", "w", "d">>
s_foo == <<"f", "o", "o">>
s_blank == <<" ">>
s_empty == <<>>

\* segments no rule of the table matches
UnknownSegments == {s_foo, s_blank, s_empty}

\* the segments of the generated logs
Segments == {s_cd_tmp, s_clear, s_whoami, s_blank}

\* a piece of a log: a segment and the character that ends it
Pieces(S) == [text : S, term : {";", "\n"}]

RECURSIVE pieces_text(_)
pieces_text(ps) ==
    IF ps = <<>> THEN <<>> ELSE Head(ps).text \o <<Head(ps).term>> \o pieces_text(Tail(ps))

\* the segments of the log, line by line: those written, and the empty one
\* that follows a ';' at the very end of the text
segments_of(ps) ==
    [i \in 1..Len(ps) |-> ps[i].text]
        \o (IF ps # <<>> /\ ps[Len(ps)].term = ";" THEN <<s_empty>> ELSE <<>>)

piece(text, term) == [text |-> text, term |-> term]

\* a few logs to run against many datasets
FewLogs ==
    {<<piece(s_cd_tmp, ";"), piece(s_whoami, "\n"), piece(s_cd_tmp, "\n")>>,
     <<piece(s_cat_passwd, ";"), piece(s_clear, ";"), piece(s_foo, ";")>>,
     <<piece(s_whoami, "\n"), piece(s_empty, "\n"), piece(s_cat_passwd, "\n")>>}

\* the ids of the rules these logs fire, ids that contain them, and others
AnalyzeRefs == {<< <<ref_id(T1083)>> >>, << <<ref_id(T1083_001)>> >>, << <<ref_id(T1005)>> >>}

AnalyzeEntries ==
    {entry(r, "n", d, s) :
        r \in AnalyzeRefs, d \in {<<>>, <<"d1">>}, s \in {<<>>, << <<>> >>, << <<"s1">> >>}}

\* a few datasets to run against many logs
FewDatasets ==
    {<<>>,
     <<entry(<< <<ref_id(T1083)>> >>, "n1", <<"d1">>, <<>>),
       entry(<< <<ref_id(T1078)>> >>, "n2", <<>>, << <<>> >>)>>,
     <<entry(<<>>, "n0", <<"d0">>, <<>>),
       entry(<< <<ref_id(T1083_001)>> >>, "n1", <<"d1">>, << <<"s1">> >>),
       entry(<< <<ref_id(T1083)>> >>, "n2", <<"d2">>, <<>>)>>}

-----------------------------------------------------------------------------
\* SpecAnalyze: analyze_bash_history, called up to MaxRuns times on the same
\* log and the same dataset object.

InitAnalyze ==
    /\ pc = "ready"
    /\ \/ /\ shape \in [segs : SeqsUpTo(Pieces(Segments), MaxSegs), objects : FewDatasets]
       \/ /\ shape \in [segs : FewLogs, objects : SeqsUpTo(AnalyzeEntries, MaxObjects)]
    /\ log_text = pieces_text(shape.segs)
    /\ mitre_data = shape.objects
    /\ command = <<>>
    /\ techniques = <<>>
    /\ technique = <<>>
    /\ info = Idle
    /\ results = <<>>
    /\ returned = <<>>
    /\ env = Idle
    /\ console = <<>>
    /\ pdf = <<>>
    /\ failure = "none"
    /\ classified = 0

\* results = analyze_bash_history(file, mitre_data)
Analyze ==
    /\ pc \in {"ready", "returned"}
    /\ Len(returned) < MaxRuns
    /\ \E a \in {analyze_bash_history(log_text, mitre_data)} :
           /\ results' = a.results
           /\ mitre_data' = a.objects
           /\ returned' = Append(returned, view(a.results, a.objects))
    /\ classified' = classified + Len(commands_of(readlines(log_text)))
    /\ pc' = "returned"
    /\ UNCHANGED <<shape, command, techniques, technique, info, log_text, env,
                   console, pdf, failure>>

NextAnalyze == Analyze

SpecAnalyze == InitAnalyze /\ [][NextAnalyze]_vars

-----------------------------------------------------------------------------
\* The reports of main.

RECURSIVE print_techniques(_)
\* the loop over result['techniques'] of main, on the dicts read through;
\* technique['description'] raises KeyError when the key is absent
print_techniques(ts) ==
    IF ts = <<>> THEN [out |-> <<>>, ok |-> TRUE]
    ELSE LET t == Head(ts)
             rest == print_techniques(Tail(ts))
         IN  IF "description" \notin DOMAIN t
             THEN [out |-> <<[name |-> t.name]>>, ok |-> FALSE]
             ELSE [out |-> <<[name |-> t.name], [description |-> t.description]>>
                            \o (IF get(t, "solutions", <<>>) # <<>>
                                THEN <<[label |-> "Solutions:"]>>
                                        \o [i \in 1..Len(t.solutions) |-> [solution |-> t.solutions[i]]]
                                ELSE <<>>)
                            \o rest.out,
                   ok |-> rest.ok]

RECURSIVE print_results(_)
\* the loop over results of main, on the list as view gives it
print_results(res) ==
    IF res = <<>> THEN [out |-> <<>>, ok |-> TRUE]
    ELSE LET t == print_techniques(Head(res).techniques)
             rest == print_results(Tail(res))
         IN  IF t.ok
             THEN [out |-> <<[command |-> Head(res).command]>> \o t.out \o rest.out, ok |-> rest.ok]
             ELSE [out |-> <<[command |-> Head(res).command]>> \o t.out, ok |-> FALSE]

\* the story of generate_pdf_report, built before doc.build writes the file
generate_pdf_report(res) ==
    LET p == print_results(res) IN [out |-> <<[title |-> "MITRE ATT&CK Mapping Report"]>> \o p.out, ok |-> p.ok]

-----------------------------------------------------------------------------
\* Spec: a run of main.
\*   env.file      the local enterprise-attack.json: "none", "valid", "corrupt"
\*   env.stale     the file is older than FILE_EXPIRATION_DAYS
\*   env.download  what a download does: "ok", "garbage" (a body that is not
\*                 JSON is written), "broken" (the stream raises and leaves a
\*                 partial file), "error" (requests.get raises)
\*   env.log       the -f file can be opened or not
\*   env.output    -o was given
\*   env.loaded    load_mitre_data has returned
\* console and pdf hold the report only, not the status lines.

MainLogs == FewLogs \cup {<<>>, <<piece(s_cd_tmp, ";"), piece(s_clear, ";"), piece(s_whoami, "\n")>>}

Init ==
    /\ pc = "start"
    /\ shape \in [segs : MainLogs, objects : FewDatasets]
    /\ env \in [file : {"none", "valid", "corrupt"}, stale : BOOLEAN,
                download : {"ok", "garbage", "broken", "error"}, log : {"readable", "unreadable"},
                output : BOOLEAN, loaded : {FALSE}]
    /\ log_text = pieces_text(shape.segs)
    /\ mitre_data = <<>>
    /\ command = <<>>
    /\ techniques = <<>>
    /\ technique = <<>>
    /\ info = Idle
    /\ results = <<>>
    /\ returned = <<>>
    /\ console = <<>>
    /\ pdf = <<>>
    /\ failure = "none"
    /\ classified = 0

\* download_mitre_attack_data(): the file it leaves and whether it raised
download_mitre_attack_data(e) ==
    CASE e.download = "ok" -> [file |-> "valid", raised |-> FALSE]
      [] e.download = "garbage" -> [file |-> "corrupt", raised |-> FALSE]
      [] e.download = "broken" -> [file |-> "corrupt", raised |-> TRUE]
      [] OTHER -> [file |-> "none", raised |-> TRUE]

\* check_and_download_mitre_data(): a stale file is removed before the download
check_and_download_mitre_data ==
    /\ pc = "start"
    /\ IF env.file # "none" /\ ~env.stale
       THEN /\ pc' = "checked"
            /\ UNCHANGED <<env, failure>>
       ELSE LET d == download_mitre_attack_data(env)
            IN  /\ env' = [env EXCEPT !.file = d.file, !.stale = FALSE]
                /\ IF d.raised
                   THEN failure' = "download" /\ pc' = "fatal"
                   ELSE pc' = "checked" /\ UNCHANGED failure
    /\ UNCHANGED <<shape, command, techniques, technique, info, log_text, mitre_data,
                   results, returned, console, pdf, classified>>

\* a load that takes whatever json gives it
load_mitre_data_lenient ==
    /\ pc = "checked"
    /\ mitre_data' = IF env.file = "valid" THEN shape.objects ELSE <<>>
    /\ env' = [env EXCEPT !.loaded = TRUE]
    /\ pc' = "loaded"
    /\ UNCHANGED <<shape, command, techniques, technique, info, log_text, results,
                   returned, console, pdf, failure, classified>>

\* mitre_data = load_mitre_data(): json.load raises on a file that is not JSON
load_mitre_data ==
    /\ pc = "checked"
    /\ IF env.file = "valid"
       THEN /\ mitre_data' = shape.objects
            /\ env' = [env EXCEPT !.loaded = TRUE]
            /\ pc' = "loaded"
            /\ UNCHANGED failure
       ELSE /\ failure' = "load"
            /\ pc' = "fatal"
            /\ UNCHANGED <<mitre_data, env>>
    /\ UNCHANGED <<shape, command, techniques, technique, info, log_text, results,
                   returned, console, pdf, classified>>

\* results = analyze_bash_history(args.file, mitre_data): open raises first
main_analyze ==
    /\ pc = "loaded"
    /\ IF env.log = "readable"
       THEN \E a \in {analyze_bash_history(log_text, mitre_data)} :
                /\ results' = a.results
                /\ mitre_data' = a.objects
                /\ returned' = Append(returned, view(a.results, a.objects))
                /\ classified' = classified + Len(commands_of(readlines(log_text)))
                /\ pc' = "analyzed"
                /\ UNCHANGED failure
       ELSE /\ failure' = "open"
            /\ pc' = "fatal"
            /\ UNCHANGED <<results, mitre_data, returned, classified>>
    /\ UNCHANGED <<shape, command, techniques, technique, info, log_text, env, console, pdf>>

\* print("Analysis Results:") and the loops that print the results
main_print ==
    /\ pc = "analyzed"
    /\ LET p == print_results(view(results, mitre_data))
       IN  /\ console' = <<[header |-> "Analysis Results:"]>> \o p.out
           /\ IF p.ok
              THEN pc' = "printed" /\ UNCHANGED failure
              ELSE pc' = "fatal" /\ failure' = "print"
    /\ UNCHANGED <<shape, command, techniques, technique, info, log_text, mitre_data,
                   results, returned, env, pdf, classified>>

\* if args.output: generate_pdf_report(results, args.output)
main_report ==
    /\ pc = "printed"
    /\ pdf' = IF env.output THEN generate_pdf_report(view(results, mitre_data)).out ELSE <<>>
    /\ pc' = "done"
    /\ UNCHANGED <<shape, command, techniques, technique, info, log_text, mitre_data,
                   results, returned, env, console, failure, classified>>

Next ==
    \/ check_and_download_mitre_data
    \/ load_mitre_data
    \/ main_analyze
    \/ main_print
    \/ main_report

Spec == Init /\ [][Next]_vars

-----------------------------------------------------------------------------
\* Properties.

\* the segments of the log that are not a bare clear, in order
kept_segments == SelectSeq(segments_of(shape.segs), LAMBDA seg : strip(seg) # w_clear)

\* C1: analyze returns exactly one entry for each ';'-separated segment of
\* each line that is not a bare clear, none for one that is, in the order of
\* the segments in the log.
C1_OneEntryPerSegment ==
    pc = "returned" =>
        /\ Len(results) = Len(kept_segments)
        /\ \A i \in 1..Len(results) : strip(results[i].command) = strip(kept_segments[i])

\* C1 witness: "cd /tmp; clear; whoami" gave two entries, cd /tmp then whoami.
C1_Witness ==
    /\ pc = "returned"
    /\ shape.segs = <<piece(s_cd_tmp, ";"), piece(s_clear, ";"), piece(s_whoami, "\n")>>
    /\ Len(results) = 2
    /\ strip(results[1].command) = s_cd_tmp
    /\ strip(results[2].command) = w_whoami

\* the index of the first entry whose first external reference's identifier
\* equals tech, 0 if there is none
first_equal(tech, objects) ==
    IF \E i \in 1..Len(objects) : external_id(objects[i]) = tech
    THEN CHOOSE i \in 1..Len(objects) :
            /\ external_id(objects[i]) = tech
            /\ \A j \in 1..(i - 1) : external_id(objects[j]) # tech
    ELSE 0

\* C2 (as claimed): the resolver returns the first entry whose first external
\* reference's identifier equals the technique id, and never an entry whose
\* identifier only contains it.
C2_FirstEqualId == pc = "resolved" => info.ref = first_equal(technique, shape.objects)

\* C3 (as claimed): when no entry matches the technique id, the record is the
\* placeholder with solutions ["No description available."].
C3_PlaceholderAsClaimed ==
    (pc = "resolved" /\ first_equal(technique, shape.objects) = 0) =>
        info.val = [name |-> "Unknown Technique",
                    description |-> "No description available.",
                    solutions |-> <<"No description available.">>]

\* C3 (amended): when no entry's first external identifier contains the
\* technique id, the record is the placeholder with name "Unknown Technique",
\* description "No description available." and solutions
\* ["No solutions available."].
C3_PlaceholderSolutions ==
    (/\ pc = "resolved"
     /\ \A i \in 1..Len(shape.objects) : ~Contains(external_id(shape.objects[i]), technique)) =>
        /\ info.ref = 0
        /\ info.val = [name |-> "Unknown Technique",
                       description |-> "No description available.",
                       solutions |-> <<"No solutions available.">>]

\* C3 witness: T1087 looked up in a non-empty dataset without it gave the
\* placeholder.
C3_Witness ==
    /\ pc = "resolved"
    /\ technique = T1087
    /\ Len(shape.objects) = 2
    /\ info.ref = 0
    /\ info.val.solutions = <<"No solutions available.">>

\* C4 (as claimed): analyze leaves every entry of the reference dataset as it
\* was before the call.
C4_DatasetUnchanged == pc = "returned" => mitre_data = shape.objects

\* C5 (as claimed): the command field of every entry is the segment without
\* leading and trailing whitespace.
C5_CommandTrimmed ==
    pc = "returned" => \A i \in 1..Len(results) : results[i].command = strip(results[i].command)

\* C6: every technique record of every result has a non-empty solutions list;
\* for an entry that had no or an empty remediation list it is the one-element
\* list of the entry's description, or of "No description available." when
\* the entry has no description.
C6_SolutionsNonEmpty ==
    pc = "returned" =>
        \A i \in 1..Len(results) : \A j \in 1..Len(results[i].techniques) :
            LET rec == results[i].techniques[j]
                d == deref(rec, mitre_data)
            IN  /\ get(d, "solutions", <<>>) # <<>>
                /\ (rec.ref > 0 /\ get(shape.objects[rec.ref], "solutions", <<>>) = <<>>) =>
                        d.solutions = <<IF "description" \in DOMAIN shape.objects[rec.ref]
                                        THEN shape.objects[rec.ref].description
                                        ELSE "No description available.">>

\* C6 witness: a result holds an entry that had neither solutions nor a
\* description, now with the one solution "No description available.".
C6_Witness ==
    /\ pc = "returned"
    /\ \E i \in 1..Len(results) : \E j \in 1..Len(results[i].techniques) :
        LET rec == results[i].techniques[j]
        IN  /\ rec.ref > 0
            /\ DOMAIN shape.objects[rec.ref] = {"name", "external_references"}
            /\ mitre_data[rec.ref].solutions = <<"No description available.">>

\* C7: two successive runs of analyze on the same log and the same dataset
\* object return equal results, entry by entry.
C7_RunsAgree == \A i \in 1..Len(returned) : \A j \in 1..Len(returned) : returned[i] = returned[j]

\* C7 witness: a second run returned, after a first that changed the dataset
\* and returned entries.
C7_Witness ==
    /\ Len(returned) = 2
    /\ returned[1] # <<>>
    /\ mitre_data # shape.objects

\* C8: a segment that matches no rule, an empty or whitespace-only one
\* included, appears as an entry with exactly one technique record, the
\* placeholder named "Unknown Technique".
C8_UnknownSegments ==
    pc = "returned" =>
        /\ Len(results) = Len(kept_segments)
        /\ \A i \in 1..Len(results) :
            kept_segments[i] \in UnknownSegments =>
                /\ Len(results[i].techniques) = 1
                /\ results[i].techniques[1].ref = 0
                /\ results[i].techniques[1].val.name = "Unknown Technique"

\* C8 witness: the empty segment after a trailing ';' and a blank line both
\* gave an entry with the placeholder.
C8_Witness ==
    /\ pc = "returned"
    /\ shape.segs = <<piece(s_blank, "\n"), piece(s_cd_tmp, ";")>>
    /\ shape.objects # <<>>
    /\ Len(results) = 3
    /\ results[1].command = <<>> /\ results[1].techniques[1].val.name = "Unknown Technique"
    /\ results[3].command = <<>> /\ results[3].techniques[1].val.name = "Unknown Technique"

\* C9: cat followed by whitespace and arguments yields T1005 then T1087 when
\* an argument holds passwd or sudoers as a whole word and T1005 alone
\* otherwise; a bare cat yields Unknown.
C9_CatRule ==
    (pc = "classified" /\ shape.verb = w_cat) =>
        IF shape.args = <<>> THEN techniques = <<Unknown>>
        ELSE shape.gap # <<>> =>
                techniques = IF \E i \in 1..Len(shape.args) : shape.args[i] \in SensitiveArgs
                             THEN <<T1005, T1087>>
                             ELSE <<T1005>>

\* C9 witness: cat /etc/sudoers gave T1005 then T1087.
C9_Witness ==
    /\ pc = "classified"
    /\ command = w_cat \o <<" ">> \o a_etc_sudoers
    /\ techniques = <<T1005, T1087>>

\* C10: no command is classified before the dataset is loaded, and when
\* obtaining or parsing the dataset fails or the log cannot be opened the run
\* is fatal with no command classified and no report on the console or in a
\* document.
C10_FatalBeforeClassification ==
    /\ classified > 0 => (env.loaded /\ env.file = "valid" /\ env.log = "readable")
    /\ failure \in {"download", "load", "open"} => pc = "fatal"
    /\ (pc # "start" /\ env.file # "valid") =>
            /\ pc \in {"checked", "fatal"}
            /\ classified = 0 /\ console = <<>> /\ pdf = <<>>
    /\ env.log = "unreadable" =>
            /\ pc \in {"start", "checked", "loaded", "fatal"}
            /\ classified = 0 /\ console = <<>> /\ pdf = <<>>

\* C10 witness: the dataset was loaded, the log could not be opened, and the
\* run is fatal with nothing classified or reported.
C10_Witness ==
    /\ pc = "fatal"
    /\ failure = "open"
    /\ env.loaded
    /\ shape.segs # <<>>
    /\ classified = 0
    /\ console = <<>>

====
